---- MODULE Spec2Model ----
(***************************************************************************)
(* Realtime messaging backend (src/main.py): passwordless magic-code       *)
(* authentication, bearer sessions, the room connection registry            *)
(* (ConnectionManager), and the two message ingestion paths.                *)
(*                                                                         *)
(* Time is a discrete clock `now`.  The document store is modelled as one   *)
(* sequence per collection, in insertion order; a record's position is its  *)
(* _id.                                                                     *)
(***************************************************************************)
EXTENDS Integers, Sequences, FiniteSets, TLC

\* ------------------------------------------------------------------ bounds
MaxTime == 2
MaxCodes == 2
MaxSessions == 2
MaxLimit == 2
MaxConns == 2
MaxRooms == 2

\* ---------------------------------------------------- program configuration
\* TTLs are read from the environment (minutes); here in clock ticks.
SESSION_TTL_MINUTES == 1
CODE_TTL_MINUTES == 1
\* verify_code fetches at most this many authcode records
CODE_FETCH_LIMIT == 50
\* close code of a rejected stream join
CLOSE_INVALID_TOKEN == 4001
\* close code websocket.close() uses by default
CLOSE_NORMAL == 1000

Emails == {"a@b.com", "c@d.com"}
\* secrets.randbelow(1000000) formatted "%06d": two representatives
Codes == {"000001", "000002"}
\* secrets.token_urlsafe(32): the n-th token issued (fresh every time)
TokenNames == <<"t1", "t2", "t3", "t4", "t5", "t6">>
EmptyToken == ""
RoomNames == <<"r1", "r2", "r3", "r4">>
Rooms == {RoomNames[i] : i \in 1..MaxRooms}
\* the WebSocket objects, one per connection attempt
Conns == 1..MaxConns
Contents == {"hi"}

VARIABLES
    db,         \* TRUE iff the module-level `db` handle is not None
    now,        \* the wall clock read by _now()
    authcode,   \* collection "authcode"
    session,    \* collection "session"
    message,    \* collection "message"
    resp,       \* the response of the last request/response call
    redeemed,   \* history: _ids of authcode records a successful verify matched
    active,     \* ConnectionManager.active: room_id -> list of handles
    task,       \* per connection: the position of its websocket_endpoint task
    alive,      \* per connection: the client side of the transport is up
    inbox       \* per connection: the frames the client has received

vars == <<db, now, authcode, session, message, resp, redeemed,
          active, task, alive, inbox>>

authVars == <<authcode, session, redeemed>>
roomVars == <<active, task, alive, inbox>>

Min(a, b) == IF a < b THEN a ELSE b

\* ------------------------------------------------------------ the store
\* Indices of the records of `coll` that carry every field of the filter.
Matching(coll, filter) ==
    {i \in 1..Len(coll) : \A k \in DOMAIN filter : coll[i][k] = filter[k]}

\* The elements of a set of indices in increasing order.
Ascending(S) ==
    [p \in 1..Cardinality(S) |->
        CHOOSE i \in S : Cardinality({j \in S : j < i}) = p - 1]

\* The strictly increasing index sequences of length k over the set S.
Picks(S, k) == {Ascending(T) : T \in {U \in SUBSET S : Cardinality(U) = k}}

\* get_documents(collection, filter, limit): at most `limit` of the matching
\* records, in store order.  Which ones are returned when more than `limit`
\* match is not determined by the interface.
get_documents(coll, filter, limit) ==
    LET M == Matching(coll, filter)
    IN  Picks(M, Min(limit, Cardinality(M)))

\* sorted(docs, key=created_at, reverse=True) on a sequence of indices into
\* coll: Python's sort is stable, also with reverse=True.
SortedDesc(coll, idx) ==
    LET n == Len(idx)
        Pos(i) == 1 + Cardinality({j \in 1..n :
                        \/ coll[idx[j]].created_at > coll[idx[i]].created_at
                        \/ /\ coll[idx[j]].created_at = coll[idx[i]].created_at
                           /\ j < i})
    IN  [p \in 1..n |-> idx[CHOOSE i \in 1..n : Pos(i) = p]]

\* ------------------------------------------------------------ responses
\* The last call of the request/response API: what was asked (op, and for
\* verify the submitted email and code) and what was answered.
NoResp == [op |-> "none", status |-> 0, detail |-> "", email |-> "",
           code |-> "", token |-> "", id |-> "", items |-> <<>>]

Response(op, status, detail) ==
    [NoResp EXCEPT !.op = op, !.status = status, !.detail = detail]

\* ------------------------------------------------------------ expiry
\* Mutant: no expiry check at all.
IsExpired_Never(exp, t) == FALSE

\* Mutant: a record expires one tick early (<= for <).
IsExpired_Early(exp, t) == exp <= t

\* `if exp and exp < _now(): ...` -- every record this program writes carries
\* a native timestamp, so the string-parsing branch is never taken.
IsExpired(exp, t) == exp < t

\* ------------------------------------------------------ Auth Code Service
\* request_code: one new authcode record per call.  With db None
\* create_document raises and the handler answers 500.
RequestCode(email, code) ==
    /\ Len(authcode) < MaxCodes
    /\ IF db
       THEN /\ authcode' = Append(authcode,
                   [email |-> email, code |-> code, created_at |-> now,
                    expires_at |-> now + CODE_TTL_MINUTES, used |-> FALSE])
            /\ resp' = Response("request_code", 200, "Code sent")
       ELSE /\ authcode' = authcode
            /\ resp' = Response("request_code", 500, "store unavailable")
    /\ UNCHANGED <<db, now, session, message, redeemed>>
    /\ UNCHANGED roomVars

\* Mutant: the scan does not compare the code string.
FirstValid_AnyCode(sorted, code, t) ==
    LET ok == {p \in 1..Len(sorted) :
                  /\ ~authcode[sorted[p]].used
                  /\ ~IsExpired(authcode[sorted[p]].expires_at, t)}
    IN  IF ok = {} THEN 0
        ELSE sorted[CHOOSE p \in ok : \A q \in ok : p <= q]

\* The scan of verify_code over codes_sorted: the _id of the first record
\* that is unused, unexpired and carries the submitted code; 0 for None.
FirstValid(sorted, code, t) ==
    LET ok == {p \in 1..Len(sorted) :
                  /\ ~authcode[sorted[p]].used
                  /\ ~IsExpired(authcode[sorted[p]].expires_at, t)
                  /\ authcode[sorted[p]].code = code}
    IN  IF ok = {} THEN 0
        ELSE sorted[CHOOSE p \in ok : \A q \in ok : p <= q]

\* The best-effort update_one of verify_code; an exception is swallowed.
MarkUsed(id, updated) ==
    IF updated THEN [authcode EXCEPT ![id].used = TRUE] ELSE authcode

\* The session document verify_code inserts.
NewSession(email, t) ==
    [email |-> email, token |-> TokenNames[Len(session) + 1],
     created_at |-> t, expires_at |-> t + SESSION_TTL_MINUTES]

\* verify_code.  `updated` is whether update_one went through.
VerifyCode(email, code, updated) ==
    /\ IF ~db
       THEN /\ resp' = [Response("verify", 500, "store unavailable") EXCEPT
                           !.email = email, !.code = code]
            /\ UNCHANGED authVars
       ELSE \E codes \in get_documents(authcode, [email |-> email],
                                        CODE_FETCH_LIMIT) :
              LET valid == FirstValid(SortedDesc(authcode, codes), code, now)
              IN  IF valid = 0
                  THEN /\ resp' = [Response("verify", 401, "Invalid or expired code")
                                      EXCEPT !.email = email, !.code = code]
                       /\ UNCHANGED authVars
                  ELSE /\ Len(session) < MaxSessions
                       /\ authcode' = MarkUsed(valid, updated)
                       /\ session' = Append(session, NewSession(email, now))
                       /\ redeemed' = redeemed \cup {valid}
                       /\ resp' = [Response("verify", 200, "") EXCEPT
                                      !.email = email, !.code = code,
                                      !.token = TokenNames[Len(session) + 1]]
    /\ UNCHANGED <<db, now, message>>
    /\ UNCHANGED roomVars

\* ------------------------------------------------------ Session Validator
\* An Authorization header: None, or "<scheme> <cred>".
NoHeader == [scheme |-> "", cred |-> ""]
Schemes == {"Bearer", "bearer", "Basic"}
Creds == {TokenNames[i] : i \in 1..MaxSessions} \cup {EmptyToken}
\* every token under "Bearer", and the first token under the other schemes
Headers ==
    {NoHeader} \cup [scheme : {"Bearer"}, cred : Creds]
               \cup [scheme : Schemes, cred : {TokenNames[1]}]

\* the header "Bearer <token>"
Bearer(token) == [scheme |-> "Bearer", cred |-> token]

\* str.lower() on the scheme word
Lower(s) == IF s = "Bearer" THEN "bearer" ELSE IF s = "Basic" THEN "basic" ELSE s

\* authorization.lower().startswith("bearer ")
StartsWithBearer(h) == h /= NoHeader /\ Lower(h.scheme) = "bearer"

\* Mutant: find_one with no filter -- the first session, whatever the token.
FindSession_Any(token) == IF session = <<>> THEN 0 ELSE 1

\* db["session"].find_one({"token": token}): the first match, 0 for None
FindSession(token) ==
    LET S == {i \in 1..Len(session) : session[i].token = token}
    IN  IF S = {} THEN 0 ELSE CHOOSE i \in S : \A j \in S : i <= j

Fail(detail) == [ok |-> FALSE, email |-> "", detail |-> detail]
Identity(email) == [ok |-> TRUE, email |-> email, detail |-> ""]

\* _require_session
RequireSession(h) ==
    IF ~StartsWithBearer(h) THEN Fail("Missing bearer token")
    ELSE LET token == h.cred
         IN  IF ~db THEN Identity(token)
             ELSE LET sess == FindSession(token)
                  IN  IF sess = 0 THEN Fail("Invalid session")
                      ELSE IF IsExpired(session[sess].expires_at, now)
                           THEN Fail("Session expired")
                           ELSE Identity(session[sess].email)

\* GET /api/me
Me(h) ==
    /\ LET r == RequireSession(h)
       IN  resp' = IF r.ok
                   THEN [Response("me", 200, "") EXCEPT !.email = r.email]
                   ELSE Response("me", 401, r.detail)
    /\ UNCHANGED <<db, now, message>>
    /\ UNCHANGED authVars
    /\ UNCHANGED roomVars

\* The clock advances.
Tick ==
    /\ now < MaxTime
    /\ now' = now + 1
    /\ UNCHANGED <<db, message, resp>>
    /\ UNCHANGED authVars
    /\ UNCHANGED roomVars

\* ------------------------------------------------------- to_public
\* datetime.isoformat()
IsoFormat(t) == "T" \o ToString(t)

\* str(ObjectId)
IdStr(id) == "m" \o ToString(id)

\* to_public: _id becomes the string id, datetimes become ISO strings.
to_public(d) ==
    [id |-> IF d.id = 0 THEN "" ELSE IdStr(d.id), room_id |-> d.room_id,
     content |-> d.content, sender_id |-> d.sender_id,
     sender_email |-> d.sender_email, created_at |-> IsoFormat(d.created_at)]

\* ------------------------------------------------ Room Connection Registry
\* ConnectionManager.__init__: the empty dict
NoRooms == [r \in {} |-> <<>>]

\* list.remove(x): drops the first occurrence
RemoveFirst(seq, x) ==
    LET hits == {i \in 1..Len(seq) : seq[i] = x}
    IN  IF hits = {} THEN seq
        ELSE LET k == CHOOSE i \in hits : \A j \in hits : i <= j
             IN  SubSeq(seq, 1, k - 1) \o SubSeq(seq, k + 1, Len(seq))

\* the handles of a list, and how often a handle occurs in it
Handles(seq) == {seq[k] : k \in 1..Len(seq)}
Count(seq, x) == Cardinality({k \in 1..Len(seq) : seq[k] = x})

\* self.active.get(room_id, [])
ConnsOf(act, room) == IF room \in DOMAIN act THEN act[room] ELSE <<>>

\* Mutant: connect replaces the room's list instead of appending to it.
Connect_Overwrite(act, room, w) ==
    [r \in DOMAIN act \cup {room} |-> IF r = room THEN <<w>> ELSE act[r]]

\* ConnectionManager.connect after the handshake:
\* self.active.setdefault(room_id, []).append(websocket)
Connect(act, room, w) ==
    [r \in DOMAIN act \cup {room} |-> IF r = room THEN Append(ConnsOf(act, room), w)
                                       ELSE act[r]]

\* Mutant: disconnect without the final pop of an emptied room.
Disconnect_NoPrune(act, room, w) ==
    IF room \in DOMAIN act
    THEN [act EXCEPT ![room] = RemoveFirst(act[room], w)]
    ELSE act

\* ConnectionManager.disconnect
Disconnect(act, room, w) ==
    LET conns == RemoveFirst(ConnsOf(act, room), w)
    IN  IF conns = <<>>
        THEN [r \in DOMAIN act \ {room} |-> act[r]]
        ELSE [act EXCEPT ![room] = conns]

\* ------------------------------------------------------------ stream tasks
NoPayload == [id |-> "", room_id |-> "", content |-> "", sender_id |-> "",
              sender_email |-> "", created_at |-> ""]

\* A websocket_endpoint task that has not started.
NewTask == [pc |-> "new", room |-> "", close |-> 0,
            snap |-> <<>>, idx |-> 0, data |-> NoPayload, sent |-> <<>>]

\* Mutant: the token check is skipped.
TokenRejected_Never(token) == FALSE

\* `if token: if db is not None: sess = find_one(...); if not sess:` -- the
\* join is refused exactly when a non-empty token has no session record.
TokenRejected(token) ==
    /\ token /= EmptyToken
    /\ db
    /\ FindSession(token) = 0

\* websocket_endpoint up to its first suspension: the token check, then
\* either close(code=4001) and return, or manager.connect awaiting accept().
WsOpen(w, room, token) ==
    /\ task[w].pc = "new"
    /\ task' = [task EXCEPT ![w] =
                  IF TokenRejected(token)
                  THEN [@ EXCEPT !.pc = "closed", !.room = room,
                                 !.close = CLOSE_INVALID_TOKEN]
                  ELSE [@ EXCEPT !.pc = "accept", !.room = room]]
    /\ UNCHANGED <<db, now, message, resp, active, alive, inbox>>
    /\ UNCHANGED authVars

\* Mutant: the generic handler closes the socket but skips manager.disconnect.
Abort_NoLeave(w) ==
    /\ task' = [task EXCEPT ![w].pc = "closed", ![w].close = CLOSE_NORMAL]
    /\ active' = active

\* The outer `except Exception` of websocket_endpoint: close, then disconnect.
Abort(w) ==
    /\ task' = [task EXCEPT ![w].pc = "closed", ![w].close = CLOSE_NORMAL]
    /\ active' = Disconnect(active, task[w].room, w)

\* accept() returns (the handle is appended and the task waits for a frame)
\* or raises because the client is gone.
WsAccept(w) ==
    /\ task[w].pc = "accept"
    /\ IF alive[w]
       THEN /\ active' = Connect(active, task[w].room, w)
            /\ task' = [task EXCEPT ![w].pc = "recv"]
       ELSE Abort(w)
    /\ UNCHANGED <<db, now, message, resp, alive, inbox>>
    /\ UNCHANGED authVars

\* The message record built from an inbound frame.
StreamMessage(room, content, t) ==
    [id |-> 0, room_id |-> room, content |-> content, sender_id |-> "",
     sender_email |-> "", created_at |-> t]

\* Mutant: the broadcast skips the connection the frame came from.
Snapshot_SkipSender(act, room, w) ==
    SelectSeq(ConnsOf(act, room), LAMBDA h : h /= w)

\* Mutant: the broadcast goes to the connections of every room.
Snapshot_AllRooms(act, room, w) ==
    LET all[i \in 0..Len(RoomNames)] ==
            IF i = 0 THEN <<>> ELSE all[i - 1] \o ConnsOf(act, RoomNames[i])
    IN  all[Len(RoomNames)]

\* ConnectionManager.broadcast up to its first send: the snapshot list(conns)
\* of the room, for a frame that came in on connection w.
Snapshot(act, room, w) == ConnsOf(act, room)

\* The task state when a broadcast of `data` starts: with nobody in the room
\* the loop body is empty and the task is back at receive_json.
StartBroadcast(t, snap, data) ==
    IF snap = <<>> THEN t
    ELSE [t EXCEPT !.pc = "send", !.snap = snap, !.idx = 1, !.data = data,
                   !.sent = <<>>]

\* Mutant: a failed insert_one is not swallowed and ends the task through the
\* generic handler.
WsReceive_Strict(w, content, stored) ==
    /\ task[w].pc = "recv"
    /\ now < MaxTime
    /\ LET msg == StreamMessage(task[w].room, content, now)
       IN  IF db /\ ~stored
           THEN /\ message' = message
                /\ task' = [task EXCEPT ![w].pc = "closed", ![w].close = CLOSE_NORMAL]
           ELSE /\ message' = IF db
                              THEN Append(message, [msg EXCEPT !.id = Len(message) + 1])
                              ELSE message
                /\ task' = [task EXCEPT ![w] =
                              StartBroadcast(@, Snapshot(active, task[w].room, w),
                                             to_public(msg))]
    /\ now' = now + 1
    /\ UNCHANGED <<db, resp, active, alive, inbox>>
    /\ UNCHANGED authVars

\* receive_json returns a frame {content}: the message is stamped, stored
\* best-effort (`stored` is whether insert_one went through) and the
\* broadcast starts.  A frame the client sent before it went away is still
\* queued for the task, so the client need not be up any more.
WsReceive(w, content, stored) ==
    /\ task[w].pc = "recv"
    /\ now < MaxTime
    /\ LET msg == StreamMessage(task[w].room, content, now)
       IN  /\ message' = IF db /\ stored
                         THEN Append(message, [msg EXCEPT !.id = Len(message) + 1])
                         ELSE message
           /\ task' = [task EXCEPT ![w] =
                         StartBroadcast(@, Snapshot(active, task[w].room, w),
                                        to_public(msg))]
    /\ now' = now + 1
    /\ UNCHANGED <<db, resp, active, alive, inbox>>
    /\ UNCHANGED authVars

\* ws.send_json succeeds while the peer's transport is up and its server
\* side has not been closed.
CanSend(ws) == alive[ws] /\ task[ws].pc /= "closed"

\* The next position of the broadcast loop; after the last handle the
\* broadcast returns and the task is back at receive_json.
Advance(t) ==
    IF t.idx >= Len(t.snap)
    THEN [t EXCEPT !.pc = "recv", !.snap = <<>>, !.idx = 0, !.data = NoPayload,
                   !.sent = <<>>]
    ELSE [t EXCEPT !.idx = @ + 1]

\* One iteration of the broadcast loop: send_json to snap[idx]; on failure
\* ws.close() is called without await (the coroutine never runs) and the
\* handle is removed.
WsSend(w) ==
    /\ task[w].pc = "send"
    /\ LET ws == task[w].snap[task[w].idx]
       IN  IF CanSend(ws)
           THEN /\ inbox' = [inbox EXCEPT ![ws] = Append(@, task[w].data)]
                /\ task' = [task EXCEPT ![w] =
                              Advance([@ EXCEPT !.sent = Append(@, ws)])]
                /\ active' = active
           ELSE /\ inbox' = inbox
                /\ task' = [task EXCEPT ![w] = Advance(@)]
                /\ active' = Disconnect(active, task[w].room, ws)
    /\ UNCHANGED <<db, now, message, resp, alive>>
    /\ UNCHANGED authVars

\* receive_json raises WebSocketDisconnect: manager.disconnect and return.
WsDisconnect(w) ==
    /\ task[w].pc = "recv"
    /\ ~alive[w]
    /\ task' = [task EXCEPT ![w].pc = "closed"]
    /\ active' = Disconnect(active, task[w].room, w)
    /\ UNCHANGED <<db, now, message, resp, alive, inbox>>
    /\ UNCHANGED authVars

\* receive_json raises on a frame that is not JSON, or data.get raises on a
\* frame that is not an object: the generic handler closes and disconnects.
WsBadFrame(w) ==
    /\ task[w].pc = "recv"
    /\ alive[w]
    /\ Abort(w)
    /\ UNCHANGED <<db, now, message, resp, alive, inbox>>
    /\ UNCHANGED authVars

\* The client goes away (close frame or severed network).
ClientDrop(w) ==
    /\ task[w].pc \in {"accept", "recv", "send"}
    /\ alive[w]
    /\ alive' = [alive EXCEPT ![w] = FALSE]
    /\ UNCHANGED <<db, now, message, resp, active, task, inbox>>
    /\ UNCHANGED authVars

\* -------------------------------------------------------- Message Gateway
\* data["sender_email"] = data.get("sender_email") or sender_email
SenderEmail(body, sessionEmail) == IF body /= "" THEN body ELSE sessionEmail

\* Mutant: post_message runs the broadcast and lets a failed send surface as
\* the handler's error.
PostMessage_Raises(room, h, content, bodySender) ==
    /\ LET r == RequireSession(h)
       IN  IF ~r.ok
           THEN /\ resp' = Response("post", 401, r.detail)
                /\ UNCHANGED <<message, now>>
           ELSE IF ~db
           THEN /\ resp' = Response("post", 500, "store unavailable")
                /\ UNCHANGED <<message, now>>
           ELSE /\ now < MaxTime
                /\ message' = Append(message,
                      [id |-> Len(message) + 1, room_id |-> room,
                       content |-> content, sender_id |-> "",
                       sender_email |-> SenderEmail(bodySender, r.email),
                       created_at |-> now])
                /\ now' = now + 1
                /\ resp' = IF \E ws \in Handles(ConnsOf(active, room)) : ~CanSend(ws)
                           THEN Response("post", 500, "send failed")
                           ELSE [Response("post", 200, "") EXCEPT
                                    !.id = IdStr(Len(message) + 1)]
    /\ UNCHANGED <<db>>
    /\ UNCHANGED authVars
    /\ UNCHANGED roomVars

\* post_message.  manager.broadcast is a coroutine function and the handler
\* is synchronous: the call builds a coroutine object that is never awaited,
\* so nothing is sent.
PostMessage(room, h, content, bodySender) ==
    /\ LET r == RequireSession(h)
       IN  IF ~r.ok
           THEN /\ resp' = Response("post", 401, r.detail)
                /\ UNCHANGED <<message, now>>
           ELSE IF ~db
           THEN /\ resp' = Response("post", 500, "store unavailable")
                /\ UNCHANGED <<message, now>>
           ELSE /\ now < MaxTime
                /\ message' = Append(message,
                      [id |-> Len(message) + 1, room_id |-> room,
                       content |-> content, sender_id |-> "",
                       sender_email |-> SenderEmail(bodySender, r.email),
                       created_at |-> now])
                /\ now' = now + 1
                /\ resp' = [Response("post", 200, "") EXCEPT
                               !.id = IdStr(Len(message) + 1)]
    /\ UNCHANGED <<db>>
    /\ UNCHANGED authVars
    /\ UNCHANGED roomVars

\* list_messages: fetch with the limit, then sort newest first.
ListMessages(room, limit) ==
    /\ IF ~db
       THEN resp' = Response("list", 500, "store unavailable")
       ELSE \E docs \in get_documents(message, [room_id |-> room], limit) :
              resp' = [Response("list", 200, "") EXCEPT
                          !.items = [p \in 1..Len(docs) |->
                                       to_public(message[SortedDesc(message, docs)[p]])]]
    /\ UNCHANGED <<db, now, message>>
    /\ UNCHANGED authVars
    /\ UNCHANGED roomVars

\* ------------------------------------------------------------ initial state
Init ==
    /\ db \in BOOLEAN
    /\ now = 0
    /\ authcode = <<>>
    /\ session = <<>>
    /\ message = <<>>
    /\ resp = NoResp
    /\ redeemed = {}
    /\ active = NoRooms
    /\ task = [w \in Conns |-> NewTask]
    /\ alive = [w \in Conns |-> TRUE]
    /\ inbox = [w \in Conns |-> <<>>]

\* --------------------------------------------------------- specifications
\* The whole program: every handler with every input.
NextAuth ==
    \/ \E e \in Emails, c \in Codes : RequestCode(e, c)
    \/ \E e \in Emails, c \in Codes, u \in BOOLEAN : VerifyCode(e, c, u)
    \/ \E h \in Headers : Me(h)
    \/ Tick

NextStream ==
    \/ \E w \in Conns, r \in Rooms, t \in Creds : WsOpen(w, r, t)
    \/ \E w \in Conns : WsAccept(w)
    \/ \E w \in Conns, c \in Contents, ok \in BOOLEAN : WsReceive(w, c, ok)
    \/ \E w \in Conns : WsSend(w)
    \/ \E w \in Conns : WsDisconnect(w)
    \/ \E w \in Conns : WsBadFrame(w)
    \/ \E w \in Conns : ClientDrop(w)

NextGateway ==
    \/ \E r \in Rooms, h \in Headers, c \in Contents, b \in {""} \cup Emails :
          PostMessage(r, h, c, b)
    \/ \E r \in Rooms, n \in 1..MaxLimit : ListMessages(r, n)

Next == NextAuth \/ NextStream \/ NextGateway

Spec == Init /\ [][Next]_vars

\* The Auth Code Service and the Session Validator on their own.
SpecAuth == Init /\ [][NextAuth]_vars

\* The Room Connection Registry and the stream path on their own: no session
\* is ever created, and the clock advances only when a frame is stamped.
NextRegistry ==
    \/ \E w \in Conns, r \in Rooms, t \in {EmptyToken, TokenNames[1]} : WsOpen(w, r, t)
    \/ \E w \in Conns : WsAccept(w)
    \/ \E w \in Conns, c \in Contents, ok \in BOOLEAN : WsReceive(w, c, ok)
    \/ \E w \in Conns : WsSend(w)
    \/ \E w \in Conns : WsDisconnect(w)
    \/ \E w \in Conns : WsBadFrame(w)
    \/ \E w \in Conns : ClientDrop(w)

SpecRegistry == Init /\ [][NextRegistry]_vars

\* One user signing in (one address, one code value, update_one reliable).
NextSignIn ==
    \/ RequestCode("a@b.com", "000001")
    \/ \E c \in Codes : VerifyCode("a@b.com", c, TRUE)
    \/ Tick

\* One stream connection joining with any token while that user signs in
\* and sessions expire.
NextJoin ==
    \/ NextSignIn
    \/ \E r \in Rooms, t \in Creds : WsOpen(1, r, t)
    \/ WsAccept(1)
    \/ \E c \in Contents, ok \in BOOLEAN : WsReceive(1, c, ok)
    \/ WsSend(1)
    \/ WsDisconnect(1)
    \/ WsBadFrame(1)
    \/ ClientDrop(1)

SpecJoin == Init /\ [][NextJoin]_vars

\* The request path: that user posting and listing while one stream
\* connection is joined to a room.
BearerHeaders == [scheme : {"Bearer"}, cred : Creds]

NextPost ==
    \/ NextSignIn
    \/ \E r \in Rooms : WsOpen(1, r, EmptyToken)
    \/ WsAccept(1)
    \/ \E r \in Rooms, h \in BearerHeaders, c \in Contents : PostMessage(r, h, c, "")
    \/ \E r \in Rooms, n \in 1..MaxLimit : ListMessages(r, n)

SpecPost == Init /\ [][NextPost]_vars

\* The protected actions: two users signing in (one code value, update_one
\* reliable), then /api/me and post_message to one room with every header.
NextProtected ==
    \/ \E e \in Emails : RequestCode(e, "000001")
    \/ \E e \in Emails : VerifyCode(e, "000001", TRUE)
    \/ Tick
    \/ \E h \in Headers : Me(h)
    \/ \E h \in Headers, c \in Contents : PostMessage(RoomNames[1], h, c, "")

SpecProtected == Init /\ [][NextProtected]_vars

\* The request path while the client of the joined connection may go away.
NextFireForget ==
    \/ NextPost
    \/ ClientDrop(1)

SpecFireForget == Init /\ [][NextFireForget]_vars

\* Both ingestion paths over several rooms: the stream tasks of every
\* connection (joining without a token, the store reliable), and one
\* signed-in user posting to any room.
NextRooms ==
    \/ \E w \in Conns, r \in Rooms : WsOpen(w, r, EmptyToken)
    \/ \E w \in Conns : WsAccept(w)
    \/ \E w \in Conns : WsReceive(w, "hi", TRUE)
    \/ \E w \in Conns : WsSend(w)
    \/ \E w \in Conns : WsDisconnect(w)
    \/ \E w \in Conns : ClientDrop(w)
    \/ RequestCode("a@b.com", "000001")
    \/ VerifyCode("a@b.com", "000001", TRUE)
    \/ \E r \in Rooms : PostMessage(r, Bearer(TokenNames[1]), "hi", "")

SpecRooms == Init /\ [][NextRooms]_vars


\* ==================================================================== claims
\* The authcode records that VerifyCode(email, code) can redeem at time t.
ValidCodes(email, code, t) ==
    {i \in 1..Len(authcode) :
        /\ authcode[i].email = email
        /\ authcode[i].code = code
        /\ ~authcode[i].used
        /\ authcode[i].expires_at >= t}

VerifyCalls(email, code) == \E u \in BOOLEAN : VerifyCode(email, code, u)

\* C1: a code is redeemed exactly once -- a VerifyCode call that matches an
\* unused, unexpired record succeeds with a token, and no record is matched
\* by two successful calls (a later call on a redeemed record fails).
C1_RedeemedExactlyOnce ==
    [][\A e \in Emails, c \in Codes :
          VerifyCalls(e, c) /\ db =>
             /\ ValidCodes(e, c, now) /= {} =>
                   resp'.status = 200 /\ resp'.token /= ""
             /\ resp'.status = 200 => redeemed' /= redeemed]_vars

\* C2: VerifyCode never succeeds on an expired code -- when every record of
\* the email that carries the submitted code has now > expires_at, the call
\* answers 401 "Invalid or expired code" (with the store up; without it the
\* call cannot succeed either) and creates no session.
C2_ExpiredCodeFails ==
    [][\A e \in Emails, c \in Codes :
          (/\ VerifyCalls(e, c)
           /\ \A i \in 1..Len(authcode) :
                 authcode[i].email = e /\ authcode[i].code = c
                    => now > authcode[i].expires_at)
          => /\ resp'.status /= 200
             /\ db => resp'.status = 401 /\ resp'.detail = "Invalid or expired code"
             /\ session' = session
             /\ authcode' = authcode]_vars

\* C2 witness: a verification of the right code string was refused while an
\* unused record with that email and code existed, because it had expired.
C2_Witness ==
    /\ resp.op = "verify"
    /\ resp.status = 401
    /\ \E i \in 1..Len(authcode) :
          /\ authcode[i].email = resp.email
          /\ authcode[i].code = resp.code
          /\ ~authcode[i].used
          /\ now > authcode[i].expires_at
    /\ \A i \in 1..Len(authcode) :
          authcode[i].email = resp.email /\ authcode[i].code = resp.code
             => now > authcode[i].expires_at

\* C3: the token returned by a successful VerifyCode is the token of the
\* session it stored, and every stored session resolves, through
\* "Bearer <token>", to its own email at every time up to expires_at and to
\* "Session expired" at every later time.
C3_TokenRoundTrip ==
    /\ resp.op = "verify" /\ resp.status = 200 =>
          /\ session /= <<>>
          /\ session[Len(session)].token = resp.token
          /\ session[Len(session)].email = resp.email
    /\ \A i \in 1..Len(session) :
          RequireSession(Bearer(session[i].token)) =
             IF now <= session[i].expires_at
             THEN Identity(session[i].email)
             ELSE Fail("Session expired")

\* C3 witness: two users hold sessions, one still valid at the very instant
\* it expires and /api/me has just answered with its email, the other past
\* its expiry.
C3_Witness ==
    /\ resp.op = "me"
    /\ resp.status = 200
    /\ \E i, j \in 1..Len(session) :
          /\ session[i].email = resp.email
          /\ now = session[i].expires_at
          /\ session[j].email /= resp.email
          /\ now > session[j].expires_at

\* The session records a header "<scheme> <token>" presents the token of,
\* provided the scheme reads "bearer" in any letter case.
Presented(h) ==
    IF h /= NoHeader /\ h.scheme \in {"Bearer", "bearer"}
    THEN {i \in 1..Len(session) : session[i].token = h.cred}
    ELSE {}

WellFormed(h) == h /= NoHeader /\ h.scheme \in {"Bearer", "bearer"}

\* The session that lets header h through at time t, if any.
Admits(h, t, email) ==
    \E i \in Presented(h) : t <= session[i].expires_at /\ session[i].email = email

\* C4: with the store available, Resolve returns an email only for a header
\* presenting exactly the token of an unexpired session, and then that
\* session's email; it answers "Missing bearer token" to an absent or
\* malformed header, "Invalid session" to an unknown token and "Session
\* expired" to an expired one; /api/me and post_message go through only on
\* such a header and act under that session's email.
C4_SessionEnforced ==
    /\ [](db => \A h \in Headers :
            LET r == RequireSession(h)
            IN  /\ r.ok => Admits(h, now, r.email)
                /\ ~WellFormed(h) => r = Fail("Missing bearer token")
                /\ WellFormed(h) /\ Presented(h) = {} => r = Fail("Invalid session")
                /\ (\E i \in Presented(h) : now > session[i].expires_at)
                      => r = Fail("Session expired"))
    /\ [][\A h \in Headers :
            Me(h) /\ db /\ resp'.status = 200 => Admits(h, now, resp'.email)]_vars
    /\ [][\A h \in Headers, c \in Contents :
            PostMessage(RoomNames[1], h, c, "") /\ db /\ message' /= message
               => Admits(h, now, message'[Len(message')].sender_email)]_vars

\* C4 witness: a post has just gone through under one user's live session
\* while the other user's session is expired.
C4_Witness ==
    /\ resp.op = "post"
    /\ resp.status = 200
    /\ \E i, j \in 1..Len(session) :
          /\ session[i].email = message[Len(message)].sender_email
          /\ message[Len(message)].created_at <= session[i].expires_at
          /\ session[j].email /= session[i].email
          /\ now > session[j].expires_at

\* -------------------------------------------------------------- registry

\* C5: a broadcast on a room with N registered connections, none of which
\* fails, delivers the payload exactly once to each of the N handles in
\* registration order, the sender's handle included.  At the frame: the
\* broadcast covers exactly the room's list, and the sender is on it.  At
\* each send: the frame goes to the next handle of that list and to no one
\* else.  At the last send of a broadcast without failure: the handles
\* served, in order, are the room's list and each holds the payload once.
C5_BroadcastReachesAll ==
    [][\A w \in Conns :
          /\ (\E c \in Contents, ok \in BOOLEAN : WsReceive(w, c, ok)) =>
                LET conns == ConnsOf(active, task[w].room)
                IN  /\ alive[w] => w \in Handles(conns)
                    /\ conns /= <<>> =>
                          /\ task'[w].pc = "send"
                          /\ task'[w].snap = conns
                          /\ task'[w].data.room_id = task[w].room
                          /\ \A h \in Conns : Count(inbox[h], task'[w].data) = 0
          /\ WsSend(w) /\ CanSend(task[w].snap[task[w].idx]) =>
                LET ws == task[w].snap[task[w].idx]
                IN  /\ inbox' = [inbox EXCEPT ![ws] = Append(@, task[w].data)]
                    /\ task[w].idx < Len(task[w].snap) =>
                          /\ task'[w].pc = "send"
                          /\ task'[w].idx = task[w].idx + 1
                          /\ task'[w].snap = task[w].snap
                          /\ task'[w].data = task[w].data
                    /\ (/\ task[w].idx = Len(task[w].snap)
                        /\ Len(task[w].sent) = task[w].idx - 1) =>
                          /\ Append(task[w].sent, ws) = task[w].snap
                          /\ \A h \in Handles(task[w].snap) :
                                Count(inbox'[h], task[w].data) = 1]_vars

\* C5 witness: two live connections are registered in one room, one of them
\* sent a frame, the broadcast is over and both hold the payload.
C5_Witness ==
    \E r \in DOMAIN active :
       /\ Len(active[r]) = 2
       /\ \A h \in Handles(active[r]) : alive[h]
       /\ \A h \in Handles(active[r]) :
             /\ task[h].pc = "recv"
             /\ Len(inbox[h]) = 1
             /\ inbox[h][1].room_id = r
       /\ \A h, g \in Handles(active[r]) : inbox[h] = inbox[g]

\* The steps that apply Leave(room, w): the two exits of the stream task and
\* a failed send of some broadcast.
Leaves(room, w) ==
    \/ task[w].room = room /\ (WsDisconnect(w) \/ WsBadFrame(w))
    \/ task[w].room = room /\ task[w].pc = "accept" /\ ~alive[w] /\ WsAccept(w)
    \/ \E v \in Conns :
          /\ task[v].pc = "send"
          /\ task[v].room = room
          /\ task[v].snap[task[v].idx] = w
          /\ ~CanSend(w)
          /\ WsSend(v)

\* C7: Leave removes exactly the handle's one entry from its room and leaves
\* every other entry and room as they were; a room whose last entry is
\* removed is absent afterwards, and in every reachable state no room maps
\* to an empty collection (nor holds a handle twice).
C7_LeavePrunes ==
    /\ [](\A r \in DOMAIN active :
             /\ r \in Rooms
             /\ active[r] /= <<>>
             /\ \A h \in Handles(active[r]) : Count(active[r], h) = 1)
    /\ [][\A r \in Rooms, w \in Conns :
             Leaves(r, w) =>
                /\ \A q \in Rooms \ {r} :
                      /\ q \in DOMAIN active' <=> q \in DOMAIN active
                      /\ q \in DOMAIN active => active'[q] = active[q]
                /\ ConnsOf(active', r) = SelectSeq(ConnsOf(active, r), LAMBDA h : h /= w)
                /\ Len(ConnsOf(active', r)) =
                      Len(ConnsOf(active, r)) - Count(ConnsOf(active, r), w)
                /\ r \in DOMAIN active' <=> ConnsOf(active', r) /= <<>>]_vars

\* C7 witness: a connection that had joined has left and its room is gone
\* from the registry, while another room still holds its one member.
C7_Witness ==
    \E w, v \in Conns :
       /\ task[w].pc = "closed"
       /\ task[w].close = 0
       /\ task[w].room \notin DOMAIN active
       /\ task[v].pc = "recv"
       /\ task[v].room \in DOMAIN active
       /\ active[task[v].room] = <<v>>

\* ------------------------------------------------------------ stream join
\* C8: a stream join that supplies a token for which no session record
\* exists (store available) is closed with code 4001 before any data
\* exchange: the registry is untouched, the handle is never registered, and
\* that connection never has a frame accepted, stored or broadcast.
C8_UnknownTokenRejected ==
    /\ [][\A r \in Rooms, t \in Creds :
            (/\ WsOpen(1, r, t)
             /\ db
             /\ t /= EmptyToken
             /\ \A i \in 1..Len(session) : session[i].token /= t)
            => /\ task'[1].pc = "closed"
               /\ task'[1].close = CLOSE_INVALID_TOKEN
               /\ active' = active
               /\ inbox' = inbox]_vars
    /\ [](task[1].close = CLOSE_INVALID_TOKEN =>
            /\ task[1].pc = "closed"
            /\ \A r \in DOMAIN active : 1 \notin Handles(active[r])
            /\ inbox[1] = <<>>)
    /\ [][task[1].close = CLOSE_INVALID_TOKEN =>
            /\ task' = task
            /\ active' = active
            /\ inbox' = inbox
            /\ message' = message]_vars

\* C8 witness: a join was refused with 4001 although the store holds a
\* session -- the token supplied was not that session's.
C8_Witness ==
    /\ task[1].close = CLOSE_INVALID_TOKEN
    /\ task[1].pc = "closed"
    /\ session /= <<>>
    /\ db

\* C9: a token supplied on a stream join is validated with the Session
\* Validator's semantics before the join completes -- the join goes ahead
\* only if the token's session exists and is not expired, and a token whose
\* session has expired is refused with close code 4001.
C9_StreamJoinValidated ==
    [][\A r \in Rooms, t \in Creds :
          WsOpen(1, r, t) /\ db /\ t /= EmptyToken =>
             /\ task'[1].pc = "accept" =>
                   \E i \in 1..Len(session) :
                      session[i].token = t /\ now <= session[i].expires_at
             /\ (\E i \in 1..Len(session) :
                    session[i].token = t /\ now > session[i].expires_at)
                => task'[1].pc = "closed" /\ task'[1].close = CLOSE_INVALID_TOKEN]_vars

\* ----------------------------------------------------------- request path
\* C6: whenever post_message with a valid session stores a message and
\* answers success, the payload of that message is delivered to every
\* connection registered in the room at that moment.
C6_PostFansOut ==
    [][\A r \in Rooms, h \in BearerHeaders, c \in Contents :
          PostMessage(r, h, c, "") /\ resp'.status = 200 =>
             \A ws \in Handles(ConnsOf(active, r)) :
                \E k \in 1..Len(inbox'[ws]) :
                   /\ inbox'[ws][k].id = resp'.id
                   /\ inbox'[ws][k].room_id = r
                   /\ inbox'[ws][k].content = c]_vars

\* C10: ListMessages(room, limit) returns at most `limit` records of that
\* room, newest first, and a listing that directly follows a successful post
\* to the room has the posted message as its first element, whatever the
\* limit >= 1 and however many messages the room already holds.
C10_NewestFirst ==
    [][\A r \in Rooms, n \in 1..MaxLimit :
          ListMessages(r, n) /\ db =>
             LET items == resp'.items
             IN  /\ resp'.status = 200
                 /\ Len(items) <= n
                 /\ \A k \in 1..Len(items) : items[k].room_id = r
                 /\ \A k \in 1..Len(items) :
                       \E i \in 1..Len(message) : items[k] = to_public(message[i])
                 /\ \A k, l \in 1..Len(items) : k < l =>
                       \A i, j \in 1..Len(message) :
                          items[k] = to_public(message[i]) /\ items[l] = to_public(message[j])
                             => message[i].created_at > message[j].created_at
                 /\ (/\ resp.op = "post"
                     /\ resp.status = 200
                     /\ message[Len(message)].room_id = r)
                    => items /= <<>> /\ items[1].id = resp.id]_vars

\* -------------------------------------------------------- failure isolation
\* The handle a broadcast step of task v is about to send to.
Target(v) == task[v].snap[task[v].idx]

\* C11: a send failure is isolated inside the broadcast -- when the send to
\* one handle fails, that handle is force-closed (its connection is closed
\* and takes no further frame) and removed from the registry, the broadcast
\* does not raise (its task goes on to the next handle, or back to the
\* receive loop after the last one), and every other handle of the snapshot
\* still gets the same payload when its turn comes.
C11_FailureIsolated ==
    [][\A v \in Conns :
          /\ (WsSend(v) /\ ~CanSend(Target(v))) =>
                /\ task'[Target(v)].pc = "closed"
                /\ active' = Disconnect(active, task[v].room, Target(v))
                /\ Target(v) \notin Handles(ConnsOf(active', task[v].room))
                /\ inbox' = inbox
                /\ Target(v) /= v =>
                      IF task[v].idx < Len(task[v].snap)
                      THEN /\ task'[v].pc = "send"
                           /\ task'[v].idx = task[v].idx + 1
                           /\ task'[v].snap = task[v].snap
                           /\ task'[v].data = task[v].data
                      ELSE task'[v].pc = "recv"
          /\ (/\ WsSend(v)
              /\ CanSend(Target(v))
              /\ Len(task[v].sent) < task[v].idx - 1) =>
                inbox' = [inbox EXCEPT ![Target(v)] = Append(@, task[v].data)]]_vars

\* ------------------------------------------------------------ interleavings
\* The step that completes Join(room, w): accept() returns in task w.
Joins(room, w) ==
    /\ task[w].room = room
    /\ task[w].pc = "accept"
    /\ alive[w]
    /\ WsAccept(w)

\* C12: under every interleaving of the stream tasks at their suspension
\* points no membership update is lost -- every step leaves each room's
\* collection as it was, except that a completed Join appends its handle and
\* a Leave or a failed send removes its handle, so the registered handles
\* are always tasks that joined that room and have not left; and a Leave
\* that runs while a broadcast is in flight never disturbs it: the broadcast
\* keeps the snapshot it took, never raises, visits the snapshot one handle
\* at a time and delivers to every handle of it that can still be sent to.
C12_NoLostUpdate ==
    /\ [](\A r \in DOMAIN active : \A h \in Handles(active[r]) :
             task[h].room = r /\ task[h].pc \in {"recv", "send"})
    /\ [][\A r \in Rooms :
             /\ \A w \in Conns :
                   Joins(r, w) => ConnsOf(active', r) = Append(ConnsOf(active, r), w)
             /\ \A w \in Conns :
                   Leaves(r, w) =>
                      ConnsOf(active', r) =
                         SelectSeq(ConnsOf(active, r), LAMBDA h : h /= w)
             /\ (\A w \in Conns : ~Joins(r, w) /\ ~Leaves(r, w))
                   => ConnsOf(active', r) = ConnsOf(active, r)]_vars
    /\ [][\A v \in Conns :
             task[v].pc = "send" =>
                /\ ~WsSend(v) => task'[v] = task[v]
                /\ WsSend(v) =>
                      /\ IF task[v].idx < Len(task[v].snap)
                         THEN /\ task'[v].pc = "send"
                              /\ task'[v].snap = task[v].snap
                              /\ task'[v].data = task[v].data
                              /\ task'[v].idx = task[v].idx + 1
                         ELSE task'[v].pc = "recv"
                      /\ (/\ Target(v) \in Handles(ConnsOf(active, task[v].room))
                          /\ CanSend(Target(v)))
                         => inbox'[Target(v)] = Append(inbox[Target(v)], task[v].data)]_vars

\* C12 witness: a broadcast is in flight and has served the first handle of
\* its snapshot; the handle it is about to serve has left the room in the
\* meantime (its task has ended), so the room's collection is shorter than
\* the snapshot.
C12_Witness ==
    \E v \in Conns :
       /\ task[v].pc = "send"
       /\ task[v].idx = 2
       /\ Len(task[v].sent) = 1
       /\ Target(v) \notin Handles(ConnsOf(active, task[v].room))
       /\ task[Target(v)].pc = "closed"
       /\ ConnsOf(active, task[v].room) = <<v>>

\* C13: whenever a stream task ends -- by client disconnect, or by any error
\* in the handshake, in the receive loop or in a broadcast it triggered --
\* Leave has been applied: a task that has ended stays ended, its handle is
\* in no room's collection from then on, and no step puts it back.
C13_EndedTaskHasLeft ==
    /\ [](\A w \in Conns :
             task[w].pc = "closed" =>
                \A r \in DOMAIN active : w \notin Handles(active[r]))
    /\ [][\A w \in Conns :
             /\ task[w].pc = "closed" => task'[w] = task[w]
             /\ (task[w].pc /= "closed" /\ task'[w].pc = "closed") =>
                   /\ \A r \in Rooms : w \notin Handles(ConnsOf(active', r))
                   /\ task[w].pc \in {"accept", "recv"} =>
                         active' = Disconnect(active, task[w].room, w)]_vars

\* C13 witness: a task that had joined a room alongside another connection
\* has ended on an error (close code 1000), and the room now holds only the
\* other connection.
C13_Witness ==
    \E w, v \in Conns :
       /\ w /= v
       /\ task[w].pc = "closed"
       /\ task[w].close = CLOSE_NORMAL
       /\ task[v].room = task[w].room
       /\ ConnsOf(active, task[w].room) = <<v>>
       /\ Len(inbox[w]) > 0

\* C14: a handle is in the registry exactly while its connection is live --
\* every stream task that has completed Join and is still in its receive
\* loop (waiting for a frame or broadcasting one) has its handle registered
\* in its room, and a handle removed because a send to it failed belongs to
\* a connection that takes no further frame: every frame that is accepted
\* comes in on a handle that is registered in its room.
C14_RegisteredWhileLive ==
    /\ [](\A w \in Conns :
             task[w].pc \in {"recv", "send"} =>
                w \in Handles(ConnsOf(active, task[w].room)))
    /\ [][\A w \in Conns :
             (\E c \in Contents, ok \in BOOLEAN : WsReceive(w, c, ok)) =>
                w \in Handles(ConnsOf(active, task[w].room))]_vars

\* ------------------------------------------------------- best-effort steps
\* C15: on the request path the broadcast is fire-and-forget -- once
\* post_message has stored the message the caller gets success with the
\* inserted id, whether or not a send to a connection of the room would
\* fail, and nothing (a failing broadcast included) removes or alters a
\* stored message record.
C15_PostFireAndForget ==
    /\ [][\A r \in Rooms, h \in BearerHeaders, c \in Contents :
             PostMessage(r, h, c, "") /\ message' /= message =>
                /\ resp'.status = 200
                /\ resp'.id = to_public(message'[Len(message')]).id
                /\ resp'.id /= ""
                /\ Len(message') = Len(message) + 1
                /\ message'[Len(message')].room_id = r]_vars
    /\ [][/\ Len(message') >= Len(message)
          /\ \A i \in 1..Len(message) : message'[i] = message[i]]_vars

\* C15 witness: a post to a room has just been answered with success while
\* the room's registered connection had lost its client, so that a send to
\* it fails; the message is in the store.
C15_Witness ==
    /\ resp.op = "post"
    /\ resp.status = 200
    /\ message /= <<>>
    /\ resp.id = IdStr(message[Len(message)].id)
    /\ \E ws \in Handles(ConnsOf(active, message[Len(message)].room_id)) :
          ~CanSend(ws)

\* C16: on the stream path persistence is best-effort -- when storing an
\* inbound frame fails, nothing is stored, the registry is untouched (the
\* connection stays registered), the task stays in its receive loop, and the
\* message is still broadcast to the room's connections.
C16_StreamBestEffort ==
    [][\A w \in Conns, c \in Contents :
          WsReceive(w, c, FALSE) /\ db =>
             LET conns == ConnsOf(active, task[w].room)
             IN  /\ message' = message
                 /\ active' = active
                 /\ task'[w].pc \in {"recv", "send"}
                 /\ task'[w].close = 0
                 /\ conns /= <<>> =>
                       /\ task'[w].pc = "send"
                       /\ task'[w].idx = 1
                       /\ task'[w].snap = conns
                       /\ task'[w].data.content = c
                       /\ task'[w].data.room_id = task[w].room]_vars

\* C16 witness: with the store available nothing was stored, yet two
\* connections of one room hold the payload of a frame, and both are still
\* registered and waiting for the next frame.
C16_Witness ==
    /\ db
    /\ message = <<>>
    /\ \E r \in DOMAIN active :
          /\ Len(active[r]) = 2
          /\ \A h \in Handles(active[r]) :
                /\ task[h].pc = "recv"
                /\ alive[h]
                /\ Len(inbox[h]) = 1
                /\ inbox[h][1].content \in Contents

\* ------------------------------------------------------------------ order
\* The clock reading a payload was stamped with (the inverse of isoformat).
Arrival(payload) == CHOOSE t \in 0..MaxTime : IsoFormat(t) = payload.created_at

\* C17: broadcast order is arrival order per connection -- a connection
\* that is registered in its room has received the payloads of that room in
\* the order in which the gateway accepted (stamped) them, under every
\* interleaving of the stream tasks that broadcast them.
C17_ArrivalOrder ==
    \A h \in Conns :
       h \in Handles(ConnsOf(active, task[h].room)) =>
          \A k, l \in 1..Len(inbox[h]) :
             k < l => Arrival(inbox[h][k]) < Arrival(inbox[h][l])

\* ------------------------------------------------------------- auth codes
\* C18: in every state reachable by RequestCode and VerifyCode calls, at the
\* time of a verification at most one AuthCode record per (email, code) pair
\* is valid (unused and unexpired).
C18_OneValidCodePerPair ==
    [][\A e \in Emails, c \in Codes :
          VerifyCalls(e, c) => Cardinality(ValidCodes(e, c, now)) <= 1]_vars

\* C19: a failed VerifyCode leaves the store unchanged -- when no unused,
\* unexpired AuthCode record of the email carries the submitted code, the
\* call does not succeed (with the store up it answers 401 "Invalid or
\* expired code"), creates no session and marks no record used; hence every
\* session in the store belongs to a verification that matched an AuthCode
\* record of the same email within that record's validity.
C19_FailedVerifyWritesNothing ==
    /\ [][\A e \in Emails, c \in Codes :
             VerifyCalls(e, c) /\ ValidCodes(e, c, now) = {} =>
                /\ resp'.status /= 200
                /\ db => resp'.status = 401 /\ resp'.detail = "Invalid or expired code"
                /\ resp'.token = ""
                /\ session' = session
                /\ authcode' = authcode
                /\ redeemed' = redeemed]_vars
    /\ [][\A e \in Emails, c \in Codes :
             VerifyCalls(e, c) /\ resp'.status /= 200 =>
                session' = session /\ authcode' = authcode]_vars
    /\ [](\A i \in 1..Len(session) :
             \E j \in redeemed :
                /\ authcode[j].email = session[i].email
                /\ authcode[j].created_at <= session[i].created_at
                /\ session[i].created_at <= authcode[j].expires_at)

\* C19 witness: a user holds a session from an earlier verification; a
\* verification with the wrong code string has just been refused although
\* an unused, unexpired record of that email exists, and that record is
\* still unused.
C19_Witness ==
    /\ resp.op = "verify"
    /\ resp.status = 401
    /\ \E i \in 1..Len(session) : session[i].email = resp.email
    /\ \E j \in 1..Len(authcode) :
          /\ authcode[j].email = resp.email
          /\ authcode[j].code /= resp.code
          /\ ~authcode[j].used
          /\ authcode[j].expires_at >= now
    /\ Len(session) = Cardinality(redeemed)

\* ------------------------------------------------------------- isolation
\* C20: rooms are isolated -- a handle is registered in no room but the one
\* it joined, every payload a connection has received was broadcast for
\* that room, a post to a room delivers nothing to a handle of another room,
\* and a broadcast step that removes a failed handle leaves the collections
\* of all other rooms as they were.
C20_RoomsIsolated ==
    /\ [](\A r \in DOMAIN active : \A h \in Handles(active[r]) : task[h].room = r)
    /\ [](\A h \in Conns : \A k \in 1..Len(inbox[h]) :
             inbox[h][k].room_id = task[h].room)
    /\ [][\A v \in Conns :
             WsSend(v) =>
                /\ task[v].data.room_id = task[v].room
                /\ task[Target(v)].room = task[v].room
                /\ \A h \in Conns : task[h].room /= task[v].room => inbox'[h] = inbox[h]
                /\ ~CanSend(Target(v)) =>
                      \A q \in Rooms \ {task[v].room} :
                         /\ q \in DOMAIN active' <=> q \in DOMAIN active
                         /\ ConnsOf(active', q) = ConnsOf(active, q)]_vars
    /\ [][\A r \in Rooms :
             PostMessage(r, Bearer(TokenNames[1]), "hi", "") =>
                \A h \in Conns : task[h].room /= r => inbox'[h] = inbox[h]]_vars

\* C20 witness: two rooms hold one connection each; the connection of one
\* room has received a payload of its room, the connection of the other room
\* has received nothing, and a post to one of the rooms has been answered
\* with success.
C20_Witness ==
    \E h, g \in Conns :
       /\ task[h].room /= task[g].room
       /\ ConnsOf(active, task[h].room) = <<h>>
       /\ ConnsOf(active, task[g].room) = <<g>>
       /\ Len(inbox[h]) = 1
       /\ inbox[h][1].room_id = task[h].room
       /\ inbox[g] = <<>>
       /\ resp.op = "post"
       /\ resp.status = 200

====
